---- MODULE Spec2Model ----
(***************************************************************************)
(* Delivery tracking of metrics (package metric, tracking.go).             *)
(*                                                                         *)
(* A trackingData record is shared by every trackingMetric created from    *)
(* it (WithTracking, WithGroupTracking, Copy).  Its counters are changed   *)
(* with sync/atomic only; goroutines are modelled as threads whose calls   *)
(* interleave at every atomic operation, every plain read of a shared      *)
(* field, every lock operation and every invocation of the callback.       *)
(*                                                                         *)
(* Call discipline of the specification Spec: a call on a trackingMetric   *)
(* is started only on an instance that is Live and on which no other call  *)
(* is in progress (a metric has one owner at a time), and every instance   *)
(* is resolved at most once.                                               *)
(*                                                                         *)
(* The second part of the module is the OPC UA read client (package opcua, *)
(* read_client.go): currentValues, ensureConnected, connect and read, with *)
(* the specification SpecOpcua.                                            *)
(***************************************************************************)
EXTENDS Integers, Sequences, FiniteSets, TLC

\* ---------------------------------------------------------------- bounds
NThreads   == 2     \* goroutines calling into the package
MaxRecords == 1     \* calls of WithTracking / WithGroupTracking
MaxInst    == 2     \* trackingMetric values ever created
MaxGroup   == 2     \* largest slice handed to WithGroupTracking
MaxIDs     == 3     \* creating calls in the specification SpecAlloc
MaxWide    == 3     \* trackingMetric values ever created in SpecWide

Int32Max == 2147483647

Threads == 1..NThreads

VARIABLES
    lastID,         \* var lastID uint64
    issued,         \* the values newTrackingID has returned, in the order
                    \*   of its atomic additions
    d,              \* the trackingData values on the heap, keyed by their Id
    inst,           \* the trackingMetric values ever returned to callers
    calls,          \* per trackingData: the DeliveryInfo values its
                    \*   notifyFunc has been invoked with, in order
    returned,       \* per trackingData: what the creating call returned
    zeros,          \* per trackingData: how many calls of trackingData.decr
                    \*   have returned 0
    mu,             \* var mu sync.Mutex: TRUE while locked
    trackingStore,  \* var trackingStore: the keys of the map
    th,             \* per thread: the call in progress and its locals
    ReadRetries,    \* readClient.ReadRetries uint64 (configuration)
    forceReconnect, \* readClient.forceReconnect bool
    connState,      \* what o.State() returns
    count,          \* var count uint64 of the read call in progress
    rc,             \* the Gather goroutine of the readClient: its position,
                    \*   the caller of the read in progress, and what the
                    \*   calls of the current cycle have done so far
    ret             \* what the last calls of read and currentValues returned

tracking == <<lastID, issued, d, inst, calls, returned, zeros, mu,
              trackingStore, th>>

opcua == <<ReadRetries, forceReconnect, connState, count, rc, ret>>

vars == <<lastID, issued, d, inst, calls, returned, zeros, mu, trackingStore,
          th, ReadRetries, forceReconnect, connState, count, rc, ret>>

\* ------------------------------------------------------- sync/atomic int32
\* atomic.AddInt32(&x, 1): two's complement wrap-around of an int32
AddInt32Incr(x) == IF x = Int32Max THEN (-Int32Max) - 1 ELSE x + 1

\* atomic.AddInt32(&x, -1)
AddInt32DecrSaturating(x) == IF x <= 0 THEN 0 ELSE x - 1
AddInt32Decr(x) == IF x = (-Int32Max) - 1 THEN Int32Max ELSE x - 1

\* func newTrackingID(): atomic.AddUint64(&lastID, 1), the new value
newTrackingIDOld(last) == last
newTrackingID(last) == last + 1

\* ------------------------------------------------------------ trackingData
\* the trackingData literal of newTrackingMetric
singleDataRcZero(id) ==
    [Id |-> id, Rc |-> 0, AcceptCount |-> 0, RejectCount |-> 0]
singleData(id) ==
    [Id |-> id, Rc |-> 1, AcceptCount |-> 0, RejectCount |-> 0]

\* the trackingData literal of newTrackingMetricGroup
groupDataRcOne(id) ==
    [Id |-> id, Rc |-> 1, AcceptCount |-> 0, RejectCount |-> 0]
groupData(id) ==
    [Id |-> id, Rc |-> 0, AcceptCount |-> 0, RejectCount |-> 0]

\* func (d *trackingData) incr()
incrNoop(r) == r
incr(r) == [r EXCEPT !.Rc = AddInt32Incr(r.Rc)]

\* func (d *trackingData) decr() int32: the record after the atomic add
decr(r) == [r EXCEPT !.Rc = AddInt32Decr(r.Rc)]

\* the value atomic.AddInt32 hands back: the NEW value of the counter
decrResultZero(r) == 0
decrOld(r) == r.Rc
decrResult(r) == decr(r).Rc

\* func (d *trackingData) accept()
acceptLate(r) == r
acceptAsReject(r) == [r EXCEPT !.RejectCount = AddInt32Incr(r.RejectCount)]
accept(r) == [r EXCEPT !.AcceptCount = AddInt32Incr(r.AcceptCount)]

\* func (d *trackingData) reject()
rejectAsAccept(r) == [r EXCEPT !.AcceptCount = AddInt32Incr(r.AcceptCount)]
reject(r) == [r EXCEPT !.RejectCount = AddInt32Incr(r.RejectCount)]

\* the deliveryInfo literal built by trackingData.notify; accepted was read
\* from d.AcceptCount one step before rejected is read from d.RejectCount
deliveryInfoNoId(r, accepted) ==
    [id |-> 0, accepted |-> accepted, rejected |-> r.RejectCount]
deliveryInfoSwapped(r, accepted) ==
    [id |-> r.Id, accepted |-> r.RejectCount, rejected |-> accepted]
deliveryInfo(r, accepted) ==
    [id |-> r.Id, accepted |-> accepted, rejected |-> r.RejectCount]

\* func (r *deliveryInfo) ID()
ID(info) == info.id

\* func (r *deliveryInfo) Delivered() bool
DeliveredIfAccepted(info) == info.accepted > 0
Delivered(info) == info.rejected = 0

\* trackingMetric.decr: if v < 0 { panic("negative refcount") }
neverNegative(v) == FALSE
negativeRefcount(v) == v < 0

\* func (m *trackingMetric) Drop(): nothing is counted before m.decr()
dropAsReject(r) == reject(r)
drop(r) == r

\* Rc of the record of newTrackingMetricGroup after the loop over the group:
\* it starts at 0 and d.incr() runs once per member
RECURSIVE incrTimes(_, _)
incrTimes(r, k) == IF k = 0 THEN r ELSE incrTimes(incr(r), k - 1)

\* if len(group) == 0 { d.notify() }
GroupNeverNotifies(k) == FALSE
GroupNotifies(k) == k = 0

\* the record Copy leaves behind: m.d.incr()
CopyNoIncr(r) == r
CopyIncr(r) == incr(r)

\* ------------------------------------------------------------------ threads
idle == [pc |-> "idle", op |-> "none", m |-> 0, id |-> 0,
         n |-> 0, v |-> 0, acc |-> 0]

\* instances of the record id
InstOf(id) == {i \in 1..Len(inst) : inst[i].d = id}

\* a call on instance i is in progress
Busy(i) == \E t \in Threads : th[t].pc # "idle" /\ th[t].m = i

\* func (m *trackingMetric) TrackingID(): m.d.Id
TrackingID(m) == d[m.d].Id

\* what the caller may start a call on
Callable(i) == i \in 1..Len(inst) /\ inst[i].st = "Live" /\ ~Busy(i)

\* a Copy whose m.d.incr() comes after the record's count reached 0
CopyKind(id) == IF zeros[id] > 0 THEN "copyLate" ELSE "copy"

\* instances being created by calls that have not returned yet
Pending ==
    LET F[s \in SUBSET Threads] ==
            IF s = {} THEN 0
            ELSE LET t == CHOOSE x \in s : TRUE
                     k == IF th[t].pc = "build"
                              THEN (IF th[t].op = "single" THEN 1 ELSE th[t].n)
                          ELSE IF th[t].pc = "copyRet" THEN 1 ELSE 0
                 IN  k + F[s \ {t}]
    IN  F[Threads]

\* ------------------------------------------ OPC UA read client: its data
\* opcua.ConnectionState: the three values read_client.go names, and
\* "Connecting" for every other value
States == {"Closed", "Connected", "Connecting", "Disconnected"}

\* what Client.Read returns: success, one of the three status codes read
\* tests for, or any other error
Outcomes == {"ok", "BadSessionIDInvalid", "BadSessionNotActivated",
             "BadSecureChannelIDInvalid", "other"}

\* isSessionError := errors.Is(err, ...) || errors.Is(...) || errors.Is(...)
isSessionError(err) == err \in {"BadSessionIDInvalid", "BadSessionNotActivated",
                                "BadSecureChannelIDInvalid"}

\* case count > o.ReadRetries
exceededLate(c, retries) == c > retries + 1
exceeded(c, retries) == c > retries

\* o.forceReconnect || o.State() == opcua.Disconnected || o.State() == opcua.Closed
mustReconnect(force, state) == force \/ state \in {"Disconnected", "Closed"}

\* o.State() != opcua.Disconnected && o.State() != opcua.Closed
disconnectFirst(state) == state # "Disconnected" /\ state # "Closed"

\* state != opcua.Connected
notConnectedNever(state) == FALSE
notConnected(state) == state # "Connected"

\* the Gather goroutine outside currentValues; the fields after from record
\* what the current (or last) call of currentValues has done:
\*   force  o.forceReconnect when ensureConnected was entered
\*   need   ensureConnected took the reconnect branch
\*   st     o.State() as ensureConnected's inner test saw it
\*   disc   ensureConnected called Disconnect
\*   dial   o.forceReconnect when OpcUAClient.Connect was called: "set",
\*          "clear", or "none" while it has not been called
\*   fresh  OpcUAClient.Connect returned nil
\*   at     o.State() as currentValues saw it
\*   own    currentValues called read itself
\*   sess   the read in progress (or the last one) hit a session error
\*   last   what the last Client.Read of that read returned
\*   derr   what Disconnect returned to currentValues
\*   ens    what ensureConnected returned: "nil" or "err"
resting == [pc |-> "idle", from |-> "none", force |-> FALSE, need |-> FALSE,
            st |-> "none", disc |-> FALSE, dial |-> "none", fresh |-> FALSE,
            at |-> "none", own |-> FALSE, sess |-> FALSE, last |-> "none",
            derr |-> "none", ens |-> "none"]

\* no call has returned yet
nothing == [read |-> "none", metrics |-> FALSE, err |-> "none"]

\* createReadClient: ReadRetries from the configuration, forceReconnect at
\* its zero value
createReadClient(retries) ==
    /\ ReadRetries = retries
    /\ forceReconnect = FALSE
    /\ connState = "Disconnected"
    /\ count = 0
    /\ rc = resting
    /\ ret = nothing

Init ==
    /\ lastID = 0
    /\ issued = << >>
    /\ d = << >>
    /\ inst = << >>
    /\ calls = << >>
    /\ returned = << >>
    /\ zeros = << >>
    /\ mu = FALSE
    /\ trackingStore = {}
    /\ th = [t \in Threads |-> idle]
    /\ createReadClient(0)

\* --------------------------------------------------------------- creation
\* WithTracking -> newTrackingMetric, up to newTrackingID()
Enter(t, op, k) ==
    /\ th[t].pc = "idle"
    /\ lastID' = lastID + 1
    /\ issued' = Append(issued, newTrackingID(lastID))
    /\ th' = [th EXCEPT ![t] = [idle EXCEPT !.pc = "build", !.op = op,
                                            !.id = newTrackingID(lastID),
                                            !.n = k]]
    /\ UNCHANGED <<opcua, d, zeros, inst, calls, returned, mu, trackingStore>>

WithTracking(t) ==
    /\ lastID < MaxRecords
    /\ Len(inst) + Pending + 1 <= MaxInst
    /\ Enter(t, "single", 0)

\* WithGroupTracking -> newTrackingMetricGroup, up to newTrackingID()
WithGroupTracking(t, k) ==
    /\ lastID < MaxRecords
    /\ Len(inst) + Pending + k <= MaxInst
    /\ Enter(t, "group", k)

\* newTrackingMetric: the record and the metric, then return
newTrackingMetric(t) ==
    /\ th[t].pc = "build"
    /\ th[t].op = "single"
    /\ LET r == singleData(th[t].id) IN
        /\ d' = d @@ (r.Id :> r)
        /\ calls' = calls @@ (r.Id :> << >>)
        /\ zeros' = zeros @@ (r.Id :> 0)
        /\ inst' = Append(inst, [d |-> r.Id, st |-> "Live", how |-> "none",
                                 by |-> "new"])
        /\ returned' = returned @@ (r.Id :> [op |-> "single", n |-> 1,
                                            id |-> r.Id])
    /\ th' = [th EXCEPT ![t] = idle]
    /\ UNCHANGED <<opcua, lastID, issued, mu, trackingStore>>

\* newTrackingMetricGroup: the record, the loop over the group, and either
\* the return or the way into d.notify()
newTrackingMetricGroup(t) ==
    /\ th[t].pc = "build"
    /\ th[t].op = "group"
    /\ LET r == incrTimes(groupData(th[t].id), th[t].n)
           new == [i \in 1..th[t].n |->
                      [d |-> r.Id, st |-> "Live", how |-> "none",
                       by |-> "new"]]
       IN
        /\ d' = d @@ (r.Id :> r)
        /\ calls' = calls @@ (r.Id :> << >>)
        /\ zeros' = zeros @@ (r.Id :> 0)
        /\ IF GroupNotifies(th[t].n)
             THEN /\ th' = [th EXCEPT ![t].pc = "notify1"]
                  /\ UNCHANGED <<inst, returned>>
             ELSE /\ inst' = inst \o new
                  /\ returned' = returned @@ (r.Id :> [op |-> "group",
                                         n |-> th[t].n, id |-> r.Id])
                  /\ th' = [th EXCEPT ![t] = idle]
    /\ UNCHANGED <<opcua, lastID, issued, mu, trackingStore>>

\* newTrackingMetricGroup: return group, d.Id after d.notify()
GroupReturn(t) ==
    /\ th[t].pc = "groupRet"
    /\ returned' = returned @@ (th[t].id :> [op |-> "group", n |-> th[t].n,
                                            id |-> d[th[t].id].Id])
    /\ th' = [th EXCEPT ![t] = idle]
    /\ UNCHANGED <<opcua, lastID, issued, zeros, d, inst, calls, mu, trackingStore>>

\* ------------------------------------------------------------------- Copy
\* func (m *trackingMetric) Copy(): m.d.incr()
CopyOf(t, i) ==
    /\ th[t].pc = "idle"
    /\ Callable(i)
    /\ d' = [d EXCEPT ![inst[i].d] = CopyIncr(@)]
    /\ th' = [th EXCEPT ![t] = [idle EXCEPT !.pc = "copyRet",
                                            !.op = CopyKind(inst[i].d),
                                            !.m = i, !.id = inst[i].d]]
    /\ UNCHANGED <<opcua, lastID, issued, zeros, inst, calls, returned, mu, trackingStore>>

Copy(t, i) ==
    /\ Len(inst) + Pending + 1 <= MaxInst
    /\ CopyOf(t, i)

\* Copy: return &trackingMetric{Metric: m.Metric.Copy(), d: m.d}
CopyReturn(t) ==
    /\ th[t].pc = "copyRet"
    /\ inst' = Append(inst, [d |-> th[t].id, st |-> "Live", how |-> "none",
                             by |-> th[t].op])
    /\ th' = [th EXCEPT ![t] = idle]
    /\ UNCHANGED <<opcua, lastID, issued, zeros, d, calls, returned, mu, trackingStore>>

\* ------------------------------------------------------ Accept/Reject/Drop
Begin(t, i, how) ==
    /\ inst' = [inst EXCEPT ![i].st = "Resolving", ![i].how = how]
    /\ th' = [th EXCEPT ![t] = [idle EXCEPT !.pc = "decr", !.op = how,
                                            !.m = i, !.id = inst[i].d]]

\* func (m *trackingMetric) Accept(): m.d.accept()
Accept(t, i) ==
    /\ th[t].pc = "idle"
    /\ Callable(i)
    /\ d' = [d EXCEPT ![inst[i].d] = accept(@)]
    /\ Begin(t, i, "accept")
    /\ UNCHANGED <<opcua, lastID, issued, zeros, calls, returned, mu, trackingStore>>

\* func (m *trackingMetric) Reject(): m.d.reject()
Reject(t, i) ==
    /\ th[t].pc = "idle"
    /\ Callable(i)
    /\ d' = [d EXCEPT ![inst[i].d] = reject(@)]
    /\ Begin(t, i, "reject")
    /\ UNCHANGED <<opcua, lastID, issued, zeros, calls, returned, mu, trackingStore>>

\* func (m *trackingMetric) Drop(): entered, m.decr() not yet run
Drop(t, i) ==
    /\ th[t].pc = "idle"
    /\ Callable(i)
    /\ d' = [d EXCEPT ![inst[i].d] = drop(@)]
    /\ Begin(t, i, "drop")
    /\ UNCHANGED <<opcua, lastID, issued, zeros, calls, returned, mu, trackingStore>>

\* func (m *trackingMetric) decr(): v := m.d.decr()
Decr(t) ==
    /\ th[t].pc = "decr"
    /\ d' = [d EXCEPT ![th[t].id] = decr(@)]
    /\ th' = [th EXCEPT ![t].v = decrResult(d[th[t].id]), ![t].pc = "check"]
    /\ zeros' = [zeros EXCEPT ![th[t].id] =
                    IF decrResult(d[th[t].id]) = 0 THEN @ + 1 ELSE @]
    /\ UNCHANGED <<opcua, lastID, issued, inst, calls, returned, mu, trackingStore>>

\* decr: if v < 0 { panic } ; if v == 0 { ... } ; return
\* (CheckLocking: a decr that takes mu before it calls notify)
CheckLocking(t) ==
    /\ th[t].pc = "check"
    /\ IF negativeRefcount(th[t].v)
         THEN /\ th' = [th EXCEPT ![t].pc = "panicked"]
              /\ inst' = [inst EXCEPT ![th[t].m].st = "Panicked"]
              /\ UNCHANGED mu
       ELSE IF th[t].v = 0
         THEN /\ mu = FALSE
              /\ mu' = TRUE
              /\ th' = [th EXCEPT ![t].pc = "notify1"]
              /\ UNCHANGED inst
       ELSE /\ th' = [th EXCEPT ![t] = idle]
            /\ inst' = [inst EXCEPT ![th[t].m].st = "Resolved"]
            /\ UNCHANGED mu
    /\ UNCHANGED <<opcua, lastID, issued, zeros, d, calls, returned, trackingStore>>

Check(t) ==
    /\ th[t].pc = "check"
    /\ IF negativeRefcount(th[t].v)
         THEN /\ th' = [th EXCEPT ![t].pc = "panicked"]
              /\ inst' = [inst EXCEPT ![th[t].m].st = "Panicked"]
       ELSE IF th[t].v = 0
         THEN /\ th' = [th EXCEPT ![t].pc = "notify1"]
              /\ UNCHANGED inst
       ELSE /\ th' = [th EXCEPT ![t] = idle]
            /\ inst' = [inst EXCEPT ![th[t].m].st = "Resolved"]
    /\ UNCHANGED <<opcua, lastID, issued, zeros, d, calls, returned, mu, trackingStore>>

\* func (d *trackingData) notify(): accepted: int(d.AcceptCount)
Notify1(t) ==
    /\ th[t].pc = "notify1"
    /\ th' = [th EXCEPT ![t].acc = d[th[t].id].AcceptCount, ![t].pc = "notify2"]
    /\ UNCHANGED <<opcua, lastID, issued, zeros, d, inst, calls, returned, mu, trackingStore>>

\* notify: rejected: int(d.RejectCount), and d.notifyFunc(&deliveryInfo{..})
Notify2(t) ==
    /\ th[t].pc = "notify2"
    /\ calls' = [calls EXCEPT ![th[t].id] =
                    Append(@, deliveryInfo(d[th[t].id], th[t].acc))]
    /\ th' = [th EXCEPT ![t].pc =
                 IF th[t].op = "group" THEN "groupRet" ELSE "lock"]
    /\ UNCHANGED <<opcua, lastID, issued, zeros, d, inst, returned, mu, trackingStore>>

\* decr: mu.Lock()
Lock(t) ==
    /\ th[t].pc = "lock"
    /\ mu = FALSE
    /\ mu' = TRUE
    /\ th' = [th EXCEPT ![t].pc = "delete"]
    /\ UNCHANGED <<opcua, lastID, issued, zeros, d, inst, calls, returned, trackingStore>>

\* decr: delete(trackingStore, m.d.Id)
\* (DeleteAll: a decr that clears the whole map)
DeleteAll(t) ==
    /\ th[t].pc = "delete"
    /\ trackingStore' = {}
    /\ th' = [th EXCEPT ![t].pc = "unlock"]
    /\ UNCHANGED <<opcua, lastID, issued, zeros, d, inst, calls, returned, mu>>

Delete(t) ==
    /\ th[t].pc = "delete"
    /\ trackingStore' = trackingStore \ {d[th[t].id].Id}
    /\ th' = [th EXCEPT ![t].pc = "unlock"]
    /\ UNCHANGED <<opcua, lastID, issued, zeros, d, inst, calls, returned, mu>>

\* decr: the deferred mu.Unlock() and the return
\* (UnlockLeak: a decr that returns without the deferred mu.Unlock())
UnlockLeak(t) ==
    /\ th[t].pc = "unlock"
    /\ inst' = [inst EXCEPT ![th[t].m].st = "Resolved"]
    /\ th' = [th EXCEPT ![t] = idle]
    /\ UNCHANGED <<opcua, lastID, issued, zeros, d, calls, returned, mu, trackingStore>>

Unlock(t) ==
    /\ th[t].pc = "unlock"
    /\ mu' = FALSE
    /\ inst' = [inst EXCEPT ![th[t].m].st = "Resolved"]
    /\ th' = [th EXCEPT ![t] = idle]
    /\ UNCHANGED <<opcua, lastID, issued, zeros, d, calls, returned, trackingStore>>

Next ==
    \E t \in Threads :
        \/ WithTracking(t)
        \/ \E k \in 0..MaxGroup : WithGroupTracking(t, k)
        \/ newTrackingMetric(t)
        \/ newTrackingMetricGroup(t)
        \/ GroupReturn(t)
        \/ \E i \in 1..Len(inst) : Copy(t, i)
        \/ CopyReturn(t)
        \/ \E i \in 1..Len(inst) : Accept(t, i)
        \/ \E i \in 1..Len(inst) : Reject(t, i)
        \/ \E i \in 1..Len(inst) : Drop(t, i)
        \/ Decr(t)
        \/ Check(t)
        \/ Notify1(t)
        \/ Notify2(t)
        \/ Lock(t)
        \/ Delete(t)
        \/ Unlock(t)

Spec == Init /\ [][Next]_vars

\* ------------------------------------------------- registry, failing callback
\* The insertion into trackingStore is not part of tracking.go: a caller that
\* holds a Live metric registers its trackingData under mu.
Register(t, i) ==
    /\ th[t].pc = "idle"
    /\ Callable(i)
    /\ mu = FALSE
    /\ d[inst[i].d].Id \notin trackingStore
    /\ trackingStore' = trackingStore \cup {d[inst[i].d].Id}
    /\ UNCHANGED <<opcua, lastID, issued, d, inst, calls, returned, zeros, mu, th>>

\* trackingData.notify when d.notifyFunc panics: the panic unwinds decr (no
\* deferred call is pending yet) and the creating or resolving call
NotifyPanic(t) ==
    /\ th[t].pc = "notify2"
    /\ calls' = [calls EXCEPT ![th[t].id] =
                    Append(@, deliveryInfo(d[th[t].id], th[t].acc))]
    /\ th' = [th EXCEPT ![t].pc = "cbPanicked"]
    /\ inst' = IF th[t].op = "group" THEN inst
               ELSE [inst EXCEPT ![th[t].m].st = "Panicked"]
    /\ UNCHANGED <<opcua, lastID, issued, zeros, d, returned, mu, trackingStore>>

NextRegistry ==
    \/ Next
    \/ \E t \in Threads :
          \/ \E i \in 1..Len(inst) : Register(t, i)
          \/ NotifyPanic(t)

\* Spec with a registry that callers fill and callbacks that may panic
SpecRegistry == Init /\ [][NextRegistry]_vars

\* ------------------------------------------------------ calls out of discipline
\* an instance that was resolved before and is handed to a call once more
Resolved(i) == i \in 1..Len(inst) /\ inst[i].st = "Resolved" /\ ~Busy(i)

BeginAgain(t, i, how) ==
    /\ inst' = [inst EXCEPT ![i].st = "Again", ![i].how = how]
    /\ th' = [th EXCEPT ![t] = [idle EXCEPT !.pc = "decr", !.op = how,
                                            !.m = i, !.id = inst[i].d]]

\* Accept on a metric that was resolved before
AcceptResolved(t, i) ==
    /\ th[t].pc = "idle"
    /\ Resolved(i)
    /\ d' = [d EXCEPT ![inst[i].d] = accept(@)]
    /\ BeginAgain(t, i, "accept")
    /\ UNCHANGED <<opcua, lastID, issued, zeros, calls, returned, mu, trackingStore>>

\* Reject on a metric that was resolved before
RejectResolved(t, i) ==
    /\ th[t].pc = "idle"
    /\ Resolved(i)
    /\ d' = [d EXCEPT ![inst[i].d] = reject(@)]
    /\ BeginAgain(t, i, "reject")
    /\ UNCHANGED <<opcua, lastID, issued, zeros, calls, returned, mu, trackingStore>>

\* Drop on a metric that was resolved before
DropResolved(t, i) ==
    /\ th[t].pc = "idle"
    /\ Resolved(i)
    /\ d' = [d EXCEPT ![inst[i].d] = drop(@)]
    /\ BeginAgain(t, i, "drop")
    /\ UNCHANGED <<opcua, lastID, issued, zeros, calls, returned, mu, trackingStore>>

\* Copy of a metric that was resolved before
CopyResolved(t, i) ==
    /\ th[t].pc = "idle"
    /\ Resolved(i)
    /\ Len(inst) + Pending + 1 <= MaxInst
    /\ d' = [d EXCEPT ![inst[i].d] = CopyIncr(@)]
    /\ th' = [th EXCEPT ![t] = [idle EXCEPT !.pc = "copyRet",
                                            !.op = CopyKind(inst[i].d),
                                            !.m = i, !.id = inst[i].d]]
    /\ UNCHANGED <<opcua, lastID, issued, zeros, inst, calls, returned, mu,
                   trackingStore>>

NextMisuse ==
    \/ Next
    \/ \E t \in Threads : \E i \in 1..Len(inst) :
          \/ Register(t, i)
          \/ AcceptResolved(t, i)
          \/ RejectResolved(t, i)
          \/ DropResolved(t, i)
          \/ CopyResolved(t, i)

\* Spec with callers that resolve or copy a metric they resolved before
SpecMisuse == Init /\ [][NextMisuse]_vars

\* ------------------------------------------------------ creating calls only
\* WithTracking, any number of metrics up to MaxIDs records
TrackOnly(t) ==
    /\ lastID < MaxIDs
    /\ Enter(t, "single", 0)

\* WithGroupTracking, up to MaxIDs records
GroupOnly(t, k) ==
    /\ lastID < MaxIDs
    /\ Enter(t, "group", k)

NextAlloc ==
    \E t \in Threads :
        \/ TrackOnly(t)
        \/ \E k \in 0..MaxGroup : GroupOnly(t, k)
        \/ newTrackingMetric(t)
        \/ newTrackingMetricGroup(t)
        \/ Notify1(t)
        \/ Notify2(t)
        \/ GroupReturn(t)

\* concurrent creating calls, nothing is resolved
SpecAlloc == Init /\ [][NextAlloc]_vars

\* ------------------------------------------------ wider fan-out, one record
\* WithTracking, up to MaxWide instances
TrackWide(t) ==
    /\ lastID < MaxRecords
    /\ Len(inst) + Pending + 1 <= MaxWide
    /\ Enter(t, "single", 0)

\* WithGroupTracking, up to MaxWide instances
GroupWide(t, k) ==
    /\ lastID < MaxRecords
    /\ Len(inst) + Pending + k <= MaxWide
    /\ Enter(t, "group", k)

\* Copy, up to MaxWide instances
CopyWide(t, i) ==
    /\ Len(inst) + Pending + 1 <= MaxWide
    /\ CopyOf(t, i)

NextWide ==
    \E t \in Threads :
        \/ TrackWide(t)
        \/ \E k \in 0..MaxGroup : GroupWide(t, k)
        \/ newTrackingMetric(t)
        \/ newTrackingMetricGroup(t)
        \/ GroupReturn(t)
        \/ \E i \in 1..Len(inst) : CopyWide(t, i)
        \/ CopyReturn(t)
        \/ \E i \in 1..Len(inst) : Accept(t, i)
        \/ \E i \in 1..Len(inst) : Reject(t, i)
        \/ \E i \in 1..Len(inst) : Drop(t, i)
        \/ Decr(t)
        \/ Check(t)
        \/ Notify1(t)
        \/ Notify2(t)
        \/ Lock(t)
        \/ Delete(t)
        \/ Unlock(t)

\* Spec with room for a Copy next to a resolve of another instance
SpecWide == Init /\ [][NextWide]_vars

\* --------------------------------------- one goroutine, re-entrant callbacks
\* The threads are the frames of one goroutine: frame t + 1 holds a call made
\* by the notifyFunc that frame t is running, so it runs only while frame t
\* is inside its callback, and frame t goes on only when frame t + 1 has
\* returned.
Runnable(t) ==
    /\ (t + 1) \in Threads => th[t + 1].pc = "idle"
    /\ (t - 1) \in Threads => th[t - 1].pc = "notify2"

\* WithTracking, at top level or from a callback
TrackNested(t) ==
    /\ Runnable(t)
    /\ lastID < MaxIDs
    /\ Len(inst) + Pending + 1 <= MaxWide
    /\ Enter(t, "single", 0)

\* WithGroupTracking, at top level or from a callback
GroupNested(t, k) ==
    /\ Runnable(t)
    /\ lastID < MaxIDs
    /\ Len(inst) + Pending + k <= MaxWide
    /\ Enter(t, "group", k)

\* Copy, at top level or from a callback
CopyNested(t, i) ==
    /\ Runnable(t)
    /\ Len(inst) + Pending + 1 <= MaxWide
    /\ CopyOf(t, i)

NextReentrant ==
    \E t \in Threads :
        \/ TrackNested(t)
        \/ \E k \in 0..MaxGroup : GroupNested(t, k)
        \/ \E i \in 1..Len(inst) : CopyNested(t, i)
        \/ Runnable(t) /\ newTrackingMetric(t)
        \/ Runnable(t) /\ newTrackingMetricGroup(t)
        \/ Runnable(t) /\ GroupReturn(t)
        \/ Runnable(t) /\ CopyReturn(t)
        \/ Runnable(t) /\ \E i \in 1..Len(inst) : Accept(t, i)
        \/ Runnable(t) /\ \E i \in 1..Len(inst) : Reject(t, i)
        \/ Runnable(t) /\ \E i \in 1..Len(inst) : Drop(t, i)
        \/ Runnable(t) /\ Decr(t)
        \/ Runnable(t) /\ Check(t)
        \/ Runnable(t) /\ Notify1(t)
        \/ Runnable(t) /\ Notify2(t)
        \/ Runnable(t) /\ Lock(t)
        \/ Runnable(t) /\ Delete(t)
        \/ Runnable(t) /\ Unlock(t)

\* one goroutine whose callbacks call back into the package
SpecReentrant == Init /\ [][NextReentrant]_vars

\* ------------------------------------------- several records, fair scheduling
\* WithTracking, up to MaxIDs records
TrackLive(t) ==
    /\ lastID < MaxIDs
    /\ Len(inst) + Pending + 1 <= MaxInst
    /\ Enter(t, "single", 0)

\* WithGroupTracking, up to MaxIDs records
GroupLive(t, k) ==
    /\ lastID < MaxIDs
    /\ Len(inst) + Pending + k <= MaxInst
    /\ Enter(t, "group", k)

\* the steps of a call that has been entered: the goroutine of thread t is
\* scheduled again and again, and a waiter for mu gets it once it is free
StepOf(t) ==
    \/ newTrackingMetric(t)
    \/ newTrackingMetricGroup(t)
    \/ GroupReturn(t)
    \/ CopyReturn(t)
    \/ Decr(t)
    \/ Check(t)
    \/ Notify1(t)
    \/ Notify2(t)
    \/ Lock(t)
    \/ Delete(t)
    \/ Unlock(t)

NextLive ==
    \E t \in Threads :
        \/ TrackLive(t)
        \/ \E k \in 0..MaxGroup : GroupLive(t, k)
        \/ \E i \in 1..Len(inst) : Copy(t, i)
        \/ \E i \in 1..Len(inst) : Register(t, i)
        \/ \E i \in 1..Len(inst) : Accept(t, i)
        \/ \E i \in 1..Len(inst) : Reject(t, i)
        \/ \E i \in 1..Len(inst) : Drop(t, i)
        \/ StepOf(t)

\* the calls are the caller's choice; a call that was entered keeps running
\* and every notifyFunc returns
SpecLive ==
    /\ Init
    /\ [][NextLive]_vars
    /\ \A t \in Threads : WF_vars(StepOf(t))

\* ================================================== OPC UA read client
\* (package opcua, read_client.go).  Gather calls currentValues from one
\* goroutine at a time.  Client.Read, OpcUAClient.Connect, Disconnect,
\* InitNodeIDs and Client.RegisterNodes are calls into other packages: each
\* returns any of its outcomes, and the connection state changes whenever
\* the server or the network makes it change.  Each test of o.State() is
\* one observation of the state.
MaxRetries == 2     \* largest configured read_retry_count

\* o.forceReconnect as the record of a call keeps it
Flag(force) == IF force THEN "set" ELSE "clear"

\* currentValues returns (nil, err)
Fail(err) == [ret EXCEPT !.metrics = FALSE, !.err = err]

\* currentValues is called; ensureConnected is entered
currentValues ==
    /\ rc.pc = "idle"
    /\ rc' = [resting EXCEPT !.pc = "ensure", !.force = forceReconnect]
    /\ ret' = nothing
    /\ UNCHANGED <<tracking, ReadRetries, forceReconnect, connState, count>>

\* ensureConnected: if o.forceReconnect || o.State() == ... { ... } return nil
ensureConnected ==
    /\ rc.pc = "ensure"
    /\ rc' = IF mustReconnect(forceReconnect, connState)
               THEN [rc EXCEPT !.pc = "reconnect", !.need = TRUE]
               ELSE [rc EXCEPT !.pc = "state", !.ens = "nil"]
    /\ UNCHANGED <<tracking, ReadRetries, forceReconnect, connState, count, ret>>

\* ensureConnected: if o.State() != opcua.Disconnected && ... { Disconnect }
reconnect ==
    /\ rc.pc = "reconnect"
    /\ rc' = [rc EXCEPT !.st = connState,
                        !.pc = IF disconnectFirst(connState)
                                 THEN "disconnect" ELSE "connect"]
    /\ UNCHANGED <<tracking, ReadRetries, forceReconnect, connState, count, ret>>

\* ensureConnected: o.Disconnect(...), its error is logged only
Disconnect(derr) ==
    /\ rc.pc = "disconnect"
    /\ rc' = [rc EXCEPT !.pc = "connect", !.disc = TRUE]
    /\ connState' \in States
    /\ UNCHANGED <<tracking, ReadRetries, forceReconnect, count, ret>>

\* connect: o.ctx = context.Background(); o.forceReconnect = false
\* (connectKeepingFlag: a connect that leaves the flag as it is)
connectKeepingFlag ==
    /\ rc.pc = "connect"
    /\ rc' = [rc EXCEPT !.pc = "dial"]
    /\ UNCHANGED <<tracking, ReadRetries, forceReconnect, connState, count, ret>>

connect ==
    /\ rc.pc = "connect"
    /\ forceReconnect' = FALSE
    /\ rc' = [rc EXCEPT !.pc = "dial"]
    /\ UNCHANGED <<tracking, ReadRetries, connState, count, ret>>

\* connect: if err := o.OpcUAClient.Connect(o.ctx); err != nil { return }
OpcUAClientConnect(err) ==
    /\ rc.pc = "dial"
    /\ connState' \in States
    /\ IF err
         THEN /\ rc' = [rc EXCEPT !.pc = "idle", !.ens = "err",
                                  !.dial = Flag(forceReconnect)]
              /\ ret' = Fail("connect failed")
         ELSE /\ rc' = [rc EXCEPT !.pc = "initNodeIDs", !.fresh = TRUE,
                                  !.dial = Flag(forceReconnect)]
              /\ UNCHANGED ret
    /\ UNCHANGED <<tracking, ReadRetries, forceReconnect, count>>

\* connect: if err := o.OpcUAInputClient.InitNodeIDs(); err != nil { return }
InitNodeIDs(err) ==
    /\ rc.pc = "initNodeIDs"
    /\ IF err
         THEN /\ rc' = [rc EXCEPT !.pc = "idle", !.ens = "err"]
              /\ ret' = Fail("initializing node IDs failed")
         ELSE /\ rc' = [rc EXCEPT !.pc = "registerNodes"]
              /\ UNCHANGED ret
    /\ UNCHANGED <<tracking, ReadRetries, forceReconnect, connState, count>>

\* connect: the request ids, from o.NodeIDs (UseUnregisteredReads) or from
\* Client.RegisterNodes; then o.read() is entered with var count uint64
RegisterNodes(unregistered, err) ==
    /\ rc.pc = "registerNodes"
    /\ IF ~unregistered /\ err
         THEN /\ rc' = [rc EXCEPT !.pc = "idle", !.ens = "err"]
              /\ ret' = Fail("registering nodes failed")
              /\ UNCHANGED count
         ELSE /\ rc' = [rc EXCEPT !.pc = "read", !.from = "connect",
                                  !.sess = FALSE, !.last = "none"]
              /\ count' = 0
              /\ UNCHANGED ret
    /\ UNCHANGED <<tracking, ReadRetries, forceReconnect, connState>>

\* currentValues: if state := o.State(); state != opcua.Connected { return }
\* and otherwise o.read() is entered with var count uint64
State ==
    /\ rc.pc = "state"
    /\ IF notConnected(connState)
         THEN /\ rc' = [rc EXCEPT !.pc = "idle", !.at = connState]
              /\ ret' = Fail("not connected")
              /\ UNCHANGED count
         ELSE /\ rc' = [rc EXCEPT !.pc = "read", !.from = "currentValues",
                                  !.at = connState, !.own = TRUE,
                                  !.sess = FALSE, !.last = "none"]
              /\ count' = 0
              /\ ret' = [ret EXCEPT !.read = "none"]
    /\ UNCHANGED <<tracking, ReadRetries, forceReconnect, connState>>

\* read returns err to its caller: connect wraps an error into "get data
\* failed" and ensureConnected and currentValues pass it on; currentValues
\* builds the metrics after a read of its own, or goes on to Disconnect
Return(r, err) ==
    /\ rc' = [r EXCEPT !.pc =
                 IF r.from = "connect"
                   THEN IF err = "nil" THEN "state" ELSE "idle"
                   ELSE IF err = "nil" THEN "idle" ELSE "disconnectAfter",
                       !.ens =
                 IF r.from = "connect"
                   THEN IF err = "nil" THEN "nil" ELSE "err"
                   ELSE r.ens]
    /\ ret' = IF r.from = "connect"
                THEN IF err = "nil" THEN [ret EXCEPT !.read = err]
                     ELSE [read |-> err, metrics |-> FALSE,
                           err |-> "get data failed"]
                ELSE IF err = "nil"
                       THEN [read |-> err, metrics |-> TRUE, err |-> "nil"]
                       ELSE [ret EXCEPT !.read = err]

\* read: one pass of the for loop, with res what Client.Read returned
read(res) ==
    LET seen == [rc EXCEPT !.last = res,
                           !.sess = rc.sess \/ isSessionError(res)]
    IN  /\ rc.pc = "read"
        /\ count' = count + 1
        /\ IF res = "ok"
             THEN /\ forceReconnect' = FALSE
                  /\ Return(seen, "nil")
             ELSE /\ forceReconnect' = (isSessionError(res) \/ forceReconnect)
                  /\ IF exceeded(count', ReadRetries)
                       THEN Return(seen, "failed after attempts")
                     ELSE IF isSessionError(res)
                       THEN /\ rc' = seen
                            /\ UNCHANGED ret
                     ELSE Return(seen, "reading failed")
        /\ UNCHANGED <<tracking, ReadRetries, connState>>

\* currentValues: if derr := o.Disconnect(...); derr != nil { log };
\* return nil, err
DisconnectAfterRead(derr) ==
    /\ rc.pc = "disconnectAfter"
    /\ rc' = [rc EXCEPT !.pc = "idle", !.derr = derr]
    /\ ret' = Fail(ret.read)
    /\ connState' \in States
    /\ UNCHANGED <<tracking, ReadRetries, forceReconnect, count>>

\* the connection changes state on its own (server, network, the client's
\* monitor goroutine)
StateChange ==
    /\ connState' \in States \ {connState}
    /\ UNCHANGED <<tracking, ReadRetries, forceReconnect, count, rc, ret>>

NextOpcua ==
    \/ currentValues
    \/ ensureConnected
    \/ reconnect
    \/ \E derr \in BOOLEAN : Disconnect(derr)
    \/ connect
    \/ \E err \in BOOLEAN : OpcUAClientConnect(err)
    \/ \E err \in BOOLEAN : InitNodeIDs(err)
    \/ \E unregistered, err \in BOOLEAN : RegisterNodes(unregistered, err)
    \/ State
    \/ \E res \in Outcomes : read(res)
    \/ \E derr \in {"nil", "disconnect failed"} : DisconnectAfterRead(derr)
    \/ StateChange

\* the configurations of the read client
InitOpcua ==
    /\ lastID = 0
    /\ issued = << >>
    /\ d = << >>
    /\ inst = << >>
    /\ calls = << >>
    /\ returned = << >>
    /\ zeros = << >>
    /\ mu = FALSE
    /\ trackingStore = {}
    /\ th = [t \in Threads |-> idle]
    /\ \E retries \in 0..MaxRetries : createReadClient(retries)

\* the statements of a call of currentValues after its entry
Running ==
    \/ ensureConnected
    \/ reconnect
    \/ \E derr \in BOOLEAN : Disconnect(derr)
    \/ connect
    \/ \E err \in BOOLEAN : OpcUAClientConnect(err)
    \/ \E err \in BOOLEAN : InitNodeIDs(err)
    \/ \E unregistered, err \in BOOLEAN : RegisterNodes(unregistered, err)
    \/ State
    \/ \E res \in Outcomes : read(res)
    \/ \E derr \in {"nil", "disconnect failed"} : DisconnectAfterRead(derr)

\* the calls into the client return, and time.Sleep(o.ReadRetryTimeout) ends
SpecOpcua ==
    /\ InitOpcua
    /\ [][NextOpcua]_vars
    /\ WF_vars(Running)

\* ------------------------------------------------- vocabulary of the claims
\* instances of the record id on which the call `how` was made
How(id, how) == {i \in InstOf(id) : inst[i].how = how}

\* the resolve call on instance i has performed its trackingData.decr()
Decremented(i) ==
    \/ inst[i].st \in {"Resolved", "Panicked"}
    \/ \E t \in Threads :
         /\ th[t].m = i
         /\ th[t].pc \in {"check", "notify1", "notify2", "lock", "delete",
                          "unlock", "panicked"}

\* the resolve call on instance i has returned or panicked
Ended(i) == inst[i].st \in {"Resolved", "Panicked"}

\* the resolve call on instance i is past the place where decr calls notify
PastNotify(i) ==
    \/ Ended(i)
    \/ \E t \in Threads :
         th[t].m = i /\ th[t].pc \in {"lock", "delete", "unlock", "panicked"}

\* a Copy of an instance of the record id has not returned yet
Copying(id) == \E t \in Threads : th[t].pc = "copyRet" /\ th[t].id = id

\* the creating call has returned and every instance ever made is resolved
AllResolved(id) ==
    /\ id \in DOMAIN returned
    /\ ~Copying(id)
    /\ \A i \in InstOf(id) : inst[i].st = "Resolved"

\* threads that are inside trackingData.notify for the record id, or about
\* to enter it with v == 0 in hand
Notifying(id) ==
    {t \in Threads :
        /\ th[t].id = id
        /\ \/ th[t].pc \in {"notify1", "notify2"}
           \/ th[t].pc = "check" /\ th[t].v = 0}

\* ------------------------------------------------------------------ claims
\* C1: exactly-once notification. For a record made by WithTracking or by
\* WithGroupTracking over N >= 1 metrics, notifyFunc is never invoked more
\* than once, and once every instance (created or copied) has been
\* resolved by Accept, Reject or Drop it has been invoked exactly once.
C1_ExactlyOnce ==
    \A id \in DOMAIN calls :
        /\ Len(calls[id]) <= 1
        /\ (AllResolved(id) /\ returned[id].n >= 1) => Len(calls[id]) = 1

C1_Witness ==
    \E id \in DOMAIN returned :
        /\ AllResolved(id)
        /\ Cardinality(InstOf(id)) > returned[id].n
        /\ \E i, j \in InstOf(id) : inst[i].how # inst[j].how
        /\ Len(calls[id]) = 1

\* C2: concurrent exactly-once. Whatever the interleaving of the resolving
\* threads, at most one trackingData.decr() of a record returns 0; every
\* call that saw 0 is on its way into notify or has invoked notifyFunc, and
\* nobody else has; once all instances have decremented exactly one call
\* has seen 0.
C2_ConcurrentExactlyOnce ==
    \A id \in DOMAIN returned :
        returned[id].n >= 1 =>
            /\ zeros[id] <= 1
            /\ zeros[id] = Cardinality(Notifying(id)) + Len(calls[id])
            /\ (~Copying(id) /\ \A i \in InstOf(id) : Decremented(i))
                   => zeros[id] = 1
            /\ AllResolved(id) => Len(calls[id]) = 1

C2_Witness ==
    \E t1, t2 \in Threads :
        /\ t1 # t2
        /\ th[t1].id = th[t2].id
        /\ th[t1].pc = "check" /\ th[t1].v = 1
        /\ th[t2].pc = "lock" /\ th[t2].v = 0
        /\ Len(calls[th[t2].id]) = 1

\* C3: final counts. Every DeliveryInfo handed to notifyFunc has accepted
\* equal to the number of Accept calls and rejected equal to the number of
\* Reject calls made on instances of the record, and together with the
\* Drop calls they account for every instance ever created for it.
C3_FinalCounts ==
    \A id \in DOMAIN calls :
        \A k \in 1..Len(calls[id]) :
            /\ calls[id][k].accepted = Cardinality(How(id, "accept"))
            /\ calls[id][k].rejected = Cardinality(How(id, "reject"))
            /\ ~Copying(id)
            /\ calls[id][k].accepted + calls[id][k].rejected
                 + Cardinality(How(id, "drop")) = Cardinality(InstOf(id))

C3_Witness ==
    \E id \in DOMAIN calls :
        /\ Len(calls[id]) = 1
        /\ calls[id][1].accepted = 1
        /\ calls[id][1].rejected = 0
        /\ Cardinality(How(id, "drop")) = 1

\* C4: no premature notification. From the moment a thread enters notify
\* for a record, every instance of the record has performed its decrement
\* and no Copy of it is in progress: no instance is Live.
C4_NoPrematureNotify ==
    \A id \in DOMAIN calls :
        (calls[id] # << >> \/ Notifying(id) # {}) =>
            /\ ~Copying(id)
            /\ \A i \in InstOf(id) : Decremented(i)

C4_Witness ==
    \E id \in DOMAIN returned :
        /\ returned[id].op = "single"
        /\ Cardinality(InstOf(id)) = 2
        /\ calls[id] # << >>
        /\ \E i \in InstOf(id) : ~Ended(i)

\* C5: empty group. When WithGroupTracking over an empty slice returns,
\* notifyFunc has been invoked exactly once, with the id the call returns,
\* accepted = 0, rejected = 0 and Delivered() = true; the record has no
\* instance, so nothing can notify for it again.
C5_EmptyGroup ==
    \A id \in DOMAIN returned :
        (returned[id].op = "group" /\ returned[id].n = 0) =>
            /\ calls[id] = << [id |-> returned[id].id, accepted |-> 0,
                               rejected |-> 0] >>
            /\ Delivered(calls[id][1])
            /\ InstOf(id) = {}
            /\ zeros[id] = 0

C5_Witness ==
    \E id \in DOMAIN returned :
        /\ returned[id].op = "group"
        /\ returned[id].n = 0
        /\ Len(calls[id]) = 1

\* C6: Delivered flag. For every DeliveryInfo produced, Delivered() is true
\* exactly when its rejected count is 0, whatever its accepted count and
\* the number of drops; hence exactly when no Reject call was made on an
\* instance of the record.
C6_DeliveredIffNoReject ==
    \A id \in DOMAIN calls :
        \A k \in 1..Len(calls[id]) :
            /\ Delivered(calls[id][k]) <=> calls[id][k].rejected = 0
            /\ Delivered(calls[id][k]) <=> How(id, "reject") = {}

C6_Witness ==
    \E id \in DOMAIN calls :
        /\ Len(calls[id]) = 1
        /\ ~Delivered(calls[id][1])
        /\ calls[id][1].accepted = 1
        /\ How(id, "reject") # {}

\* the record id was made by WithTracking, was never copied, and `how` was
\* called on its only instance
SingleNeverCopied(id, how) ==
    /\ returned[id].op = "single"
    /\ ~Copying(id)
    /\ Cardinality(InstOf(id)) = 1
    /\ How(id, how) = InstOf(id)

\* the DeliveryInfo sequence a record has seen is exactly one notification
\* with these counts
NotifiedOnceWith(id, accepted, rejected) ==
    calls[id] = << [id |-> returned[id].id, accepted |-> accepted,
                    rejected |-> rejected] >>

\* C7: single accepted metric. For a metric made by WithTracking and never
\* copied, Accept invokes notifyFunc inside that call, once, with
\* Delivered() = true, accepted = 1, rejected = 0.
C7_SingleAccept ==
    \A id \in DOMAIN returned :
        SingleNeverCopied(id, "accept") =>
            \A i \in InstOf(id) :
                IF PastNotify(i)
                    THEN /\ NotifiedOnceWith(id, 1, 0)
                         /\ Delivered(calls[id][1])
                         /\ inst[i].st # "Panicked"
                    ELSE calls[id] = << >>

C7_Witness ==
    \E id \in DOMAIN returned :
        /\ SingleNeverCopied(id, "accept")
        /\ AllResolved(id)
        /\ NotifiedOnceWith(id, 1, 0)

\* C8: single rejected metric. For a metric made by WithTracking and never
\* copied, Reject invokes notifyFunc inside that call, once, with
\* Delivered() = false, accepted = 0, rejected = 1.
C8_SingleReject ==
    \A id \in DOMAIN returned :
        SingleNeverCopied(id, "reject") =>
            \A i \in InstOf(id) :
                IF PastNotify(i)
                    THEN /\ NotifiedOnceWith(id, 0, 1)
                         /\ ~Delivered(calls[id][1])
                         /\ inst[i].st # "Panicked"
                    ELSE calls[id] = << >>

C8_Witness ==
    \E id \in DOMAIN returned :
        /\ SingleNeverCopied(id, "reject")
        /\ AllResolved(id)
        /\ NotifiedOnceWith(id, 0, 1)

\* C9: Drop is not a rejection. A record all of whose instances were
\* dropped (in particular a metric made by WithTracking, never copied and
\* dropped) is notified once all the Drop calls are past their notify
\* point, with accepted = 0, rejected = 0 and Delivered() = true.
C9_DropIsNotRejection ==
    \A id \in DOMAIN returned :
        (returned[id].n >= 1 /\ ~Copying(id) /\ How(id, "drop") = InstOf(id))
            => IF \A i \in InstOf(id) : PastNotify(i)
                   THEN /\ NotifiedOnceWith(id, 0, 0)
                        /\ Delivered(calls[id][1])
                        /\ \A i \in InstOf(id) : inst[i].st # "Panicked"
                   ELSE \A k \in 1..Len(calls[id]) :
                            /\ calls[id][k].accepted = 0
                            /\ calls[id][k].rejected = 0
                            /\ Delivered(calls[id][k])

C9_Witness ==
    \E id \in DOMAIN returned :
        /\ SingleNeverCopied(id, "drop")
        /\ AllResolved(id)
        /\ NotifiedOnceWith(id, 0, 0)
        /\ Delivered(calls[id][1])

\* C10: fan-out of one copy. After WithTracking and one Copy, with Accept
\* called on one of the two instances and Reject on the other (either
\* order, possibly concurrently), notifyFunc is not invoked until both have
\* decremented, and once both calls are past their notify point it has
\* been invoked exactly once, with accepted = 1, rejected = 1 and
\* Delivered() = false.
C10_CopyFanOut ==
    \A id \in DOMAIN returned :
        (/\ returned[id].op = "single"
         /\ Cardinality(InstOf(id)) + (IF Copying(id) THEN 1 ELSE 0) = 2)
            => /\ (Copying(id) \/ \E i \in InstOf(id) : ~Decremented(i))
                    => calls[id] = << >>
               /\ (/\ Cardinality(How(id, "accept")) = 1
                   /\ Cardinality(How(id, "reject")) = 1
                   /\ \A i \in InstOf(id) : PastNotify(i))
                    => /\ NotifiedOnceWith(id, 1, 1)
                       /\ ~Delivered(calls[id][1])
                       /\ \A i \in InstOf(id) : inst[i].st = "Resolved"
                              \/ ~Ended(i)

C10_Witness ==
    \E id \in DOMAIN returned :
        /\ returned[id].op = "single"
        /\ Cardinality(How(id, "accept")) = 1
        /\ Cardinality(How(id, "reject")) = 1
        /\ AllResolved(id)
        /\ NotifiedOnceWith(id, 1, 1)

\* the calls Accept, Reject and Drop
Resolves == {"accept", "reject", "drop"}

\* C11: fatal check on negative refcount. A call of Accept, Reject or Drop
\* whose decrement yielded a value below 0 panics: it never reaches notify
\* or the registry, the step that ends it invokes no notifyFunc and removes
\* no registry entry, and it never returns.
C11_FatalNegative ==
    /\ [](\A t \in Threads :
            (th[t].op \in Resolves /\ th[t].pc # "decr" /\ th[t].v < 0)
                => th[t].pc \in {"check", "panicked"})
    /\ [][\A t \in Threads :
            (th[t].pc = "check" /\ th[t].v < 0 /\ th'[t] # th[t])
                => /\ th'[t].pc = "panicked"
                   /\ inst'[th[t].m].st = "Panicked"
                   /\ calls' = calls
                   /\ trackingStore' = trackingStore]_vars
    /\ [][\A t \in Threads :
            th[t].pc = "panicked" => th'[t] = th[t]]_vars

C11_Witness ==
    \E t \in Threads :
        /\ th[t].pc = "panicked"
        /\ th[t].v < 0
        /\ d[th[t].id].Id \in trackingStore
        /\ Len(calls[th[t].id]) <= 1

\* some resolve call on instance j has performed its trackingData.decr()
EverDecremented(j) ==
    \/ inst[j].st \in {"Resolved", "Again", "Panicked"}
    \/ /\ inst[j].st = "Resolving"
       /\ \E t \in Threads :
            th[t].m = j /\ th[t].op \in Resolves /\ th[t].pc # "decr"

\* every reference of the record id has been given back at least once
NoneOutstanding(id) ==
    /\ ~Copying(id)
    /\ \A j \in InstOf(id) : EverDecremented(j)

\* C12 as claimed: a second Accept, Reject or Drop on the same instance
\* always ends in the negative-refcount failure, also while sibling
\* instances of the record are Live.
C12_SecondCallAlwaysPanics ==
    \A t \in Threads :
        (/\ th[t].op \in Resolves
         /\ th[t].pc # "decr"
         /\ inst[th[t].m].st = "Again")
            => th[t].v < 0

\* C12 as amended: a second Accept, Reject or Drop on the same instance
\* gets a negative decrement, and panics, whenever no other reference of
\* the record is outstanding (every instance has decremented before and no
\* Copy is in progress); the code keeps no state per instance.
C12_SecondCallPanicsWhenLast ==
    /\ [][\A t \in Threads :
            (/\ th[t].pc = "decr"
             /\ th'[t].pc = "check"
             /\ inst[th[t].m].st = "Again"
             /\ NoneOutstanding(th[t].id))
                => th'[t].v < 0]_vars
    /\ [][\A t \in Threads :
            (/\ th[t].pc = "check"
             /\ inst[th[t].m].st = "Again"
             /\ th[t].v < 0
             /\ th'[t] # th[t])
                => th'[t].pc = "panicked"]_vars

C12_Witness ==
    \E t \in Threads :
        /\ th[t].pc = "panicked"
        /\ InstOf(th[t].id) = {th[t].m}
        /\ Len(calls[th[t].id]) = 1

\* the Copy calls on the record id made after its count had reached 0
LateCopies(id) ==
    Cardinality({i \in InstOf(id) : inst[i].by = "copyLate"})
      + Cardinality({t \in Threads :
            th[t].pc = "copyRet" /\ th[t].id = id /\ th[t].op = "copyLate"})

\* C13 as claimed: notifyFunc is invoked at most once per TrackingID,
\* whatever is called on instances of the record afterwards, Copy after
\* completion followed by resolving the copy included.
C13_AtMostOncePerId ==
    \A id \in DOMAIN calls : Len(calls[id]) <= 1

\* C13 as amended: after notifyFunc was invoked for a TrackingID no
\* sequence of Accept, Reject and Drop calls invokes it again; only a Copy
\* made after the record's count reached 0 lets a later resolve notify
\* again, once per such Copy at most.
C13_AtMostOnceUnlessLateCopy ==
    \A id \in DOMAIN calls :
        /\ Len(calls[id]) <= 1 + LateCopies(id)
        /\ id \in DOMAIN zeros =>
              zeros[id] + (IF id \in DOMAIN returned /\ returned[id].n = 0
                              THEN 1 ELSE 0) <= 1 + LateCopies(id)

C13_Witness ==
    \E id \in DOMAIN calls :
        /\ Len(calls[id]) = 2
        /\ LateCopies(id) = 1
        /\ \E t \in Threads : th[t].pc = "panicked" /\ th[t].id = id

\* C14: registry presence while in flight. Once WithTracking, or
\* WithGroupTracking over N >= 1 metrics, has returned and while an instance
\* of the record is Live, trackingStore holds the record's TrackingID.
C14_PresentWhileLive ==
    \A id \in DOMAIN returned :
        (/\ returned[id].n >= 1
         /\ \E i \in InstOf(id) : inst[i].st = "Live")
            => d[id].Id \in trackingStore

\* C15: registry removal is atomic with completion. Whenever mu is free, so
\* that another thread can take it and look, no record for which notifyFunc
\* has been invoked is still in trackingStore; and a completing decr that is
\* about to return has removed the entry.
C15_RemovalAtomic ==
    /\ \A id \in DOMAIN calls :
          (calls[id] # << >> /\ mu = FALSE) => d[id].Id \notin trackingStore
    /\ \A t \in Threads :
          th[t].pc = "unlock" => d[th[t].id].Id \notin trackingStore

\* C16: callback failure still cleans up. When notifyFunc, called by the
\* resolve that brought the count to 0, panics, the panic reaches the
\* caller, notifyFunc is not called again, and the TrackingID of the record
\* is no longer in trackingStore.
C16_PanicStillRemoves ==
    \A t \in Threads :
        th[t].pc = "cbPanicked"
            => /\ Len(calls[th[t].id]) = 1
               /\ d[th[t].id].Id \notin trackingStore

\* an instance of the record id has not been resolved
Unresolved(id) == \E i \in InstOf(id) : ~Decremented(i)

\* C17: leaked reference. As long as an instance of a record (original,
\* group member or copy) has not been resolved, notifyFunc has not been
\* invoked for the record, no thread is in the completion path of decr for
\* it, and no step removes its TrackingID from trackingStore, whatever was
\* called on the other instances.
C17_LeakedReference ==
    /\ [](\A id \in DOMAIN returned :
            Unresolved(id) =>
                /\ calls[id] = << >>
                /\ \A t \in Threads :
                      th[t].id = id =>
                          th[t].pc \notin {"notify1", "notify2", "lock",
                                           "delete", "unlock", "cbPanicked"})
    /\ [][\A id \in DOMAIN returned :
            (Unresolved(id) /\ d[id].Id \in trackingStore)
                => d[id].Id \in trackingStore']_vars

C17_Witness ==
    \E id \in DOMAIN returned :
        /\ \E i \in InstOf(id) : inst[i].st = "Live" /\ inst[i].by = "copy"
        /\ \E i \in InstOf(id) : inst[i].st = "Resolved"
        /\ \A i \in InstOf(id) : inst[i].st \in {"Live", "Resolved"}
        /\ \A t \in Threads : th[t].pc = "idle"
        /\ d[id].Id \in trackingStore
        /\ calls[id] = << >>

\* C18: identifier allocation. Every WithTracking and WithGroupTracking call,
\* an empty group included, takes its TrackingID from the one counter lastID
\* by an atomic increment: the first id issued is 1, 0 is never issued, the
\* ids are strictly increasing in the order of the increments and pairwise
\* distinct, also between calls that are in progress at the same time.
C18_IdAllocation ==
    /\ Len(issued) = lastID
    /\ issued # << >> => issued[1] = 1
    /\ \A k \in 1..Len(issued) : issued[k] # 0
    /\ \A j, k \in 1..Len(issued) : j < k => issued[j] < issued[k]
    /\ \A t \in Threads :
          th[t].pc = "build" => \E k \in 1..Len(issued) : issued[k] = th[t].id
    /\ \A t, u \in Threads :
          (t # u /\ th[t].pc = "build" /\ th[u].pc = "build")
              => th[t].id # th[u].id
    /\ \A id \in DOMAIN returned :
          /\ \E k \in 1..Len(issued) : issued[k] = returned[id].id
          /\ \A other \in DOMAIN returned :
                other # id => returned[other].id # returned[id].id

C18_Witness ==
    /\ Len(issued) = 3
    /\ \E id \in DOMAIN returned : returned[id].n = 0 /\ returned[id].id = 1
    /\ \E t, u \in Threads :
          /\ t # u
          /\ th[t].pc = "build" /\ th[t].op = "single"
          /\ th[u].pc = "build" /\ th[u].op = "group"

\* nothing has been called on the instances of the record id since the
\* creating call returned
Untouched(id) ==
    /\ ~Copying(id)
    /\ \A i \in InstOf(id) :
          inst[i].st = "Live" /\ inst[i].by = "new" /\ ~Busy(i)

\* the instances that the creating call of the record id returned
Created(id) == {i \in InstOf(id) : inst[i].by = "new"}

\* C19: initial reference counts. When WithTracking returns, the record has
\* Rc = 1, AcceptCount = 0, RejectCount = 0; when WithGroupTracking over
\* N >= 1 metrics returns, one record is shared by the N instances with
\* Rc = N and both counters 0; and notifyFunc is not invoked before each of
\* the N members has been resolved.
C19_InitialCounts ==
    \A id \in DOMAIN returned :
        returned[id].n >= 1 =>
            /\ Cardinality(Created(id)) = returned[id].n
            /\ returned[id].op = "single" => returned[id].n = 1
            /\ Untouched(id) =>
                  /\ d[id].Rc = returned[id].n
                  /\ d[id].AcceptCount = 0
                  /\ d[id].RejectCount = 0
            /\ calls[id] # << >> => \A i \in Created(id) : Decremented(i)

C19_Witness ==
    \E id \in DOMAIN returned :
        /\ returned[id].op = "group"
        /\ returned[id].n = 2
        /\ Untouched(id)
        /\ d[id].Rc = 2

\* C20: Copy effect. Copy on a Live instance raises the Rc of the shared
\* record by exactly 1 and leaves AcceptCount, RejectCount, the instance it
\* was called on and the calls of notifyFunc as they are; it returns one new
\* Live instance bound to the same record, without entering notify; and
\* notifyFunc is not invoked for the record before the copy is resolved.
C20_CopyEffect ==
    /\ [][\A t \in Threads :
            (th[t].pc = "idle" /\ th'[t].pc = "copyRet")
                => LET id == th'[t].id IN
                    /\ inst[th'[t].m].d = id
                    /\ inst[th'[t].m].st = "Live"
                    /\ d'[id].Rc = d[id].Rc + 1
                    /\ d'[id].AcceptCount = d[id].AcceptCount
                    /\ d'[id].RejectCount = d[id].RejectCount
                    /\ d'[id].Id = d[id].Id
                    /\ inst' = inst
                    /\ calls' = calls]_vars
    /\ [][\A t \in Threads :
            (th[t].pc = "copyRet" /\ th'[t] # th[t])
                => /\ th'[t].pc = "idle"
                   /\ Len(inst') = Len(inst) + 1
                   /\ \A i \in 1..Len(inst) : inst'[i] = inst[i]
                   /\ inst'[Len(inst')].d = th[t].id
                   /\ inst'[Len(inst')].st = "Live"
                   /\ inst[th[t].m].st = "Live"
                   /\ d' = d
                   /\ calls' = calls]_vars
    /\ [](\A id \in DOMAIN calls :
            (\/ Copying(id)
             \/ \E i \in InstOf(id) :
                   inst[i].by = "copy" /\ ~Decremented(i))
                => calls[id] = << >>)

C20_Witness ==
    \E id \in DOMAIN returned :
        /\ returned[id].op = "single"
        /\ Cardinality(InstOf(id)) = 2
        /\ \A i \in InstOf(id) : inst[i].st = "Live" /\ ~Busy(i)
        /\ \E i \in InstOf(id) : inst[i].by = "copy"
        /\ d[id].Rc = 2
        /\ d[id].AcceptCount = 0
        /\ d[id].RejectCount = 0
        /\ calls[id] = << >>

\* C21: Drop frame. Drop changes nothing before its decrement, the decrement
\* lowers Rc by exactly 1 and leaves AcceptCount and RejectCount as they
\* are; the value it gets decides as for Accept and Reject: 0 leads into
\* notify (Drop of the last Live instance notifies), a positive value
\* returns.
C21_DropFrame ==
    /\ [][\A t \in Threads :
            (th[t].pc = "idle" /\ th'[t].pc = "decr" /\ th'[t].op = "drop")
                => d' = d /\ calls' = calls]_vars
    /\ [][\A t \in Threads :
            (th[t].pc = "decr" /\ th[t].op = "drop" /\ th'[t].pc = "check")
                => LET id == th[t].id IN
                    /\ d'[id].Rc = d[id].Rc - 1
                    /\ d'[id].AcceptCount = d[id].AcceptCount
                    /\ d'[id].RejectCount = d[id].RejectCount
                    /\ th'[t].v = d'[id].Rc]_vars
    /\ [][\A t \in Threads :
            (th[t].pc = "check" /\ th[t].op = "drop" /\ th'[t] # th[t])
                => IF th[t].v = 0 THEN th'[t].pc = "notify1"
                   ELSE th'[t].pc \notin {"notify1", "notify2"}]_vars

C21_Witness ==
    \E t \in Threads :
        /\ th[t].op = "drop"
        /\ th[t].pc = "lock"
        /\ How(th[t].id, "accept") # {}
        /\ calls[th[t].id] =
              << [id |-> th[t].id, accepted |-> 1, rejected |-> 0] >>

\* instances of the record id whose resolve call has not decremented yet
NotDecremented(id) == {i \in InstOf(id) : ~Decremented(i)}

\* no call is in progress
Quiescent == \A t \in Threads : th[t].pc = "idle"

\* C22: refcount invariant. With every instance resolved once, in every
\* state (a Copy between its incr and its return and resolve calls between
\* their steps included) Rc >= 0 and Rc is at least the number of instances
\* whose resolve has not decremented yet; with no call in progress Rc is the
\* number of Live instances of the record.
C22_RefcountInvariant ==
    \A id \in DOMAIN d :
        /\ d[id].Rc >= 0
        /\ d[id].Rc >= Cardinality(NotDecremented(id))
        /\ Quiescent =>
              d[id].Rc = Cardinality({i \in InstOf(id) : inst[i].st = "Live"})

C22_Witness ==
    \E id \in DOMAIN d, t, u \in Threads :
        /\ th[t].pc = "copyRet" /\ th[t].id = id
        /\ th[u].pc = "check" /\ th[u].id = id /\ th[u].v = 2
        /\ d[id].Rc = 2
        /\ Cardinality(NotDecremented(id)) = 1

\* instances of the record id resolved by the call `how` whose decrement
\* has been performed
Done(id, how) == {i \in How(id, how) : Decremented(i)}

\* C23: counter before decrement. Accept adds to AcceptCount, and Reject to
\* RejectCount, before the call's decrement: in every state AcceptCount is
\* at least the number of Accept calls that have decremented, RejectCount
\* at least the number of Reject calls that have decremented, a call that
\* is about to decrement is already counted, and when Rc = 0 both counters
\* hold their final values.
C23_CounterBeforeDecrement ==
    \A id \in DOMAIN returned :
        /\ d[id].AcceptCount >= Cardinality(Done(id, "accept"))
        /\ d[id].RejectCount >= Cardinality(Done(id, "reject"))
        /\ \A t \in Threads :
              (th[t].id = id /\ th[t].pc = "decr")
                  => /\ th[t].op = "accept" => d[id].AcceptCount >= 1
                     /\ th[t].op = "reject" => d[id].RejectCount >= 1
        /\ (returned[id].n >= 1 /\ d[id].Rc = 0)
              => /\ \A i \in InstOf(id) : Decremented(i)
                 /\ d[id].AcceptCount = Cardinality(How(id, "accept"))
                 /\ d[id].RejectCount = Cardinality(How(id, "reject"))

C23_Witness ==
    \E id \in DOMAIN returned, t, u \in Threads :
        /\ d[id].Rc = 0
        /\ th[t].id = id /\ th[t].pc = "check" /\ th[t].v = 0
        /\ th[t].op = "accept"
        /\ th[u].id = id /\ th[u].pc = "check" /\ th[u].v = 1
        /\ th[u].op = "reject"
        /\ d[id].AcceptCount = 1
        /\ d[id].RejectCount = 1
        /\ calls[id] = << >>

\* the step is the entry of the call `how` on an instance of the record id
Enters(id, how) ==
    \E t \in Threads :
        /\ th[t].pc = "idle"
        /\ th'[t].pc = "decr"
        /\ th'[t].op = how
        /\ th'[t].id = id

\* C24: counter monotonicity. AcceptCount and RejectCount of a record never
\* decrease; an Accept call adds exactly 1 to AcceptCount and leaves
\* RejectCount, a Reject call adds exactly 1 to RejectCount and leaves
\* AcceptCount, and no other step (Copy, Drop, the decrement, notify, the
\* registry steps, the creation of another record) changes either.
C24_CounterMonotonic ==
    [][\A id \in DOMAIN d :
          /\ id \in DOMAIN d'
          /\ d'[id].AcceptCount >= d[id].AcceptCount
          /\ d'[id].RejectCount >= d[id].RejectCount
          /\ d'[id].AcceptCount =
                d[id].AcceptCount + (IF Enters(id, "accept") THEN 1 ELSE 0)
          /\ d'[id].RejectCount =
                d[id].RejectCount + (IF Enters(id, "reject") THEN 1 ELSE 0)]_vars

C24_Witness ==
    \E id \in DOMAIN returned :
        /\ returned[id].op = "group"
        /\ AllResolved(id)
        /\ Cardinality(How(id, "accept")) = 2
        /\ d[id].AcceptCount = 2
        /\ d[id].RejectCount = 0

\* the thread t is where only a caller of trackingData.notify can be: inside
\* notify or behind it
InOrPastNotify(t) ==
    th[t].pc \in {"notify1", "notify2", "groupRet", "lock", "delete",
                  "unlock", "cbPanicked"}

\* C25: notification call paths. notify is entered only by a resolve call
\* whose decrement returned exactly 0 or by WithGroupTracking on an empty
\* group: the value a resolve call tests is the new Rc, a call that got a
\* positive or a negative value does not enter notify, nor do Copy and
\* WithTracking, and notifyFunc is invoked by such a thread only.
C25_NotifyCallPaths ==
    /\ [](\A t \in Threads :
            InOrPastNotify(t) =>
                \/ th[t].op = "group" /\ th[t].n = 0
                \/ th[t].op \in Resolves /\ th[t].v = 0)
    /\ [][\A t \in Threads :
            (th[t].pc = "decr" /\ th'[t].pc = "check")
                => th'[t].v = d'[th[t].id].Rc]_vars
    /\ [][\A t \in Threads :
            (th[t].pc = "check" /\ th[t].v # 0 /\ th'[t] # th[t])
                => th'[t].pc \in {"idle", "panicked"} /\ calls' = calls]_vars
    /\ [][\A t \in Threads :
            (th[t].pc \in {"build", "copyRet"} /\ th[t].op # "group"
                /\ th'[t] # th[t])
                => /\ th'[t].pc = "idle"
                   /\ \A id \in DOMAIN calls' :
                         calls'[id] = IF id \in DOMAIN calls THEN calls[id]
                                      ELSE << >>]_vars
    /\ [][\A id \in DOMAIN calls :
            calls'[id] # calls[id]
                => \E t \in Threads :
                      /\ th[t].pc = "notify2"
                      /\ th[t].id = id
                      /\ \/ th[t].op = "group" /\ th[t].n = 0
                         \/ th[t].op \in Resolves /\ th[t].v = 0]_vars

C25_Witness ==
    \E t, u \in Threads :
        /\ th[t].pc = "notify2" /\ th[t].op \in Resolves /\ th[t].v = 0
        /\ th[u].pc = "panicked" /\ th[u].v < 0 /\ th[u].id = th[t].id
        /\ calls[th[t].id] # << >>
        /\ \E i \in InstOf(th[t].id) : inst[i].by # "new"

\* threads whose resolve call on an instance of the record id is inside
\* notify or behind it
Notifiers(id) ==
    {t \in Threads :
        th[t].id = id /\ th[t].op \in Resolves /\ InOrPastNotify(t)}

\* C26: synchronous notification in the zero-crossing thread. notifyFunc is
\* run by the thread whose Accept, Reject or Drop got 0 from its decrement,
\* after that decrement and before that call returns; no other resolve call
\* on the record runs it.
C26_SynchronousNotify ==
    /\ [](\A id \in DOMAIN returned :
            /\ Cardinality(Notifiers(id)) <= 1
            /\ \A t \in Notifiers(id) :
                  /\ th[t].v = 0
                  /\ inst[th[t].m].st = "Resolving"
                  /\ Decremented(th[t].m)
                  /\ th[t].pc \in {"lock", "delete", "unlock"}
                        => Len(calls[id]) = 1
                  /\ th[t].pc \in {"notify1", "notify2"}
                        => calls[id] = << >>)
    /\ [][\A id \in DOMAIN returned :
            (id \in DOMAIN calls /\ calls'[id] # calls[id])
                => \E t \in Notifiers(id) :
                      /\ th[t].pc = "notify2"
                      /\ th'[t].pc = "lock"
                      /\ inst'[th[t].m].st = "Resolving"
                      /\ calls[id] = << >>]_vars
    /\ [][\A t \in Threads :
            (th[t].pc = "unlock" /\ th'[t].pc = "idle")
                => /\ Len(calls[th[t].id]) = 1
                   /\ inst'[th[t].m].st = "Resolved"]_vars

C26_Witness ==
    \E t, u \in Threads :
        /\ th[t].pc = "notify2" /\ th[t].v = 0
        /\ th[u].pc = "check" /\ th[u].v = 1 /\ th[u].id = th[t].id
        /\ th[t].op \in Resolves /\ th[u].op \in Resolves
        /\ calls[th[t].id] = << >>

\* threads that hold mu
Holders == {t \in Threads : th[t].pc \in {"delete", "unlock"}}

\* C27: lock-free hot path. mu is taken only by a resolve call whose
\* decrement returned 0, after its notify: a Copy and a resolve call that
\* got another value never wait for mu or hold it. With every instance
\* resolved once a record has at most one decrement that returns 0, hence at
\* most one acquisition of mu by resolution, however many copies were made.
C27_LockFreeHotPath ==
    /\ [](/\ Cardinality(Holders) <= 1
          /\ mu = (Holders # {})
          /\ \A t \in Threads :
                th[t].pc \in {"lock", "delete", "unlock"}
                    => /\ th[t].op \in Resolves
                       /\ th[t].v = 0
                       /\ zeros[th[t].id] = 1
                       /\ Len(calls[th[t].id]) = 1
          /\ \A id \in DOMAIN zeros : zeros[id] <= 1)
    /\ [][\A t \in Threads :
            (th[t].pc = "decr" /\ th'[t].pc = "check")
                => /\ th'[t].v = d'[th[t].id].Rc
                   /\ zeros'[th[t].id] =
                         zeros[th[t].id] + (IF th'[t].v = 0 THEN 1 ELSE 0)
                   /\ mu' = mu]_vars
    /\ [][mu' # mu
            => \E t \in Threads :
                  /\ th[t].op \in Resolves
                  /\ th[t].v = 0
                  /\ \/ th[t].pc = "lock" /\ th'[t].pc = "delete"
                     \/ th[t].pc = "unlock" /\ th'[t].pc = "idle"]_vars
    /\ [][\A t \in Threads :
            (\/ th[t].pc = "copyRet" \/ th'[t].pc = "copyRet"
             \/ th[t].pc = "check" /\ th[t].v # 0)
                => (th'[t] # th[t] => mu' = mu)]_vars

C27_Witness ==
    \E t \in Threads :
        /\ th[t].pc = "delete"
        /\ mu = TRUE
        /\ Cardinality({i \in InstOf(th[t].id) : inst[i].by = "copy"}) = 2
        /\ Cardinality({i \in InstOf(th[t].id) : inst[i].st = "Resolved"}) = 2
        /\ zeros[th[t].id] = 1

\* C28: no lock held during the callback. While a call is inside notify mu
\* is not held by its goroutine, so a notifyFunc that resolves the last
\* instance of another record (which takes mu), or that creates or copies
\* tracked metrics, is never stopped at mu.Lock(): in one goroutine with
\* re-entrant callbacks, mu is free whenever a frame is in notify and
\* whenever a frame reaches mu.Lock().
C28_NoLockDuringCallback ==
    /\ Cardinality(Holders) <= 1
    /\ mu = (Holders # {})
    /\ \A t \in Threads :
          /\ th[t].pc \in {"notify1", "lock"} => mu = FALSE
          /\ th[t].pc = "notify2"
                => \A u \in Holders : u > t /\ th[u].id # th[t].id
          /\ t \in Holders
                => \A u \in Threads \ {t} : th[u].pc \in {"idle", "notify2"}

C28_Witness ==
    \E t, u \in Threads :
        /\ th[t].pc = "notify2" /\ th[t].op \in Resolves
        /\ th[u].pc = "delete" /\ th[u].op \in Resolves
        /\ th[u].id # th[t].id
        /\ mu = TRUE
        /\ calls[th[u].id] # << >>
        /\ calls[th[t].id] = << >>

\* C29: termination and lock release. With callbacks that return and fair
\* scheduling every call that was entered returns; mu is held exactly while
\* a call is between its mu.Lock() and its return, so mu is free whenever
\* no call is in progress, and threads completing different records at the
\* same time all finish.
C29_TerminationAndRelease ==
    /\ \A t \in Threads : (th[t].pc # "idle") ~> (th[t].pc = "idle")
    /\ [](mu = (Holders # {}))
    /\ [](Cardinality(Holders) <= 1)
    /\ [](Quiescent => mu = FALSE)

C29_Witness ==
    \E t, u \in Threads :
        /\ th[t].pc = "delete"
        /\ th[u].pc = "lock"
        /\ th[t].id # th[u].id
        /\ mu = TRUE

\* the records that SpecLive can make
LiveIds == 1..MaxIDs

\* a resolve call has been entered on every instance of the record id
AllStarted(id) ==
    /\ id \in DOMAIN returned
    /\ returned[id].n >= 1
    /\ ~Copying(id)
    /\ \A i \in InstOf(id) : inst[i].st # "Live"

\* C30: eventual notification. With every instance resolved once and fair
\* scheduling, once a resolve call has been entered on every instance of a
\* record notifyFunc is eventually invoked for it (once), and after that
\* its TrackingID is eventually, and from the return of the completing call
\* on for ever, absent from trackingStore.
C30_EventualNotification ==
    /\ \A id \in LiveIds :
          AllStarted(id) ~> (id \in DOMAIN calls /\ Len(calls[id]) = 1)
    /\ \A id \in LiveIds :
          (id \in DOMAIN calls /\ Len(calls[id]) = 1 /\ AllStarted(id))
              ~> [](id \notin trackingStore)
    /\ [](\A id \in DOMAIN returned :
             (returned[id].n >= 1 /\ AllResolved(id))
                 => Len(calls[id]) = 1 /\ id \notin trackingStore)

C30_Witness ==
    \E t \in Threads :
        /\ th[t].pc = "delete"
        /\ th[t].id \in trackingStore
        /\ AllStarted(th[t].id)
        /\ Cardinality(InstOf(th[t].id)) = 2
        /\ Len(calls[th[t].id]) = 1

\* the DeliveryInfo that the calls made on the instances of the record id
\* determine, whatever their order
Expected(id) ==
    [id |-> id,
     accepted |-> Cardinality(How(id, "accept")),
     rejected |-> Cardinality(How(id, "reject"))]

\* C31: order independence. The DeliveryInfo handed to notifyFunc (id,
\* accepted, rejected, Delivered()) is determined by which call was made on
\* which instance of the record: it is the same in every order and every
\* interleaving of the calls, whichever thread and whichever instance makes
\* the decrement that returns 0.
C31_OrderIndependence ==
    \A id \in DOMAIN returned :
        returned[id].n >= 1 =>
            /\ \A k \in 1..Len(calls[id]) :
                  /\ calls[id][k] = Expected(id)
                  /\ Delivered(calls[id][k]) = (How(id, "reject") = {})
            /\ \A t \in Threads :
                  (th[t].id = id /\ th[t].pc = "notify2")
                      => deliveryInfo(d[id], th[t].acc) = Expected(id)

C31_Witness ==
    \E id \in DOMAIN returned, t \in Threads :
        /\ Cardinality(InstOf(id)) = 3
        /\ How(id, "accept") # {} /\ How(id, "reject") # {}
        /\ How(id, "drop") # {}
        /\ calls[id] = << [id |-> id, accepted |-> 1, rejected |-> 1] >>
        /\ th[t].id = id /\ th[t].pc = "lock" /\ th[t].op = "drop"
        /\ \E i \in InstOf(id) : i > th[t].m

\* C32: identifier stability. The Id of a record never changes; TrackingID()
\* of every instance of the record (group member or copy, Live or
\* resolved) is the id that the creating call returned, and the
\* DeliveryInfo handed to notifyFunc carries that id.
C32_IdStability ==
    /\ [][\A id \in DOMAIN d :
            id \in DOMAIN d' /\ d'[id].Id = d[id].Id]_vars
    /\ [][\A id \in DOMAIN returned :
            id \in DOMAIN returned' /\ returned'[id].id = returned[id].id]_vars
    /\ [][\A i \in 1..Len(inst) :
            i \in 1..Len(inst') /\ inst'[i].d = inst[i].d]_vars
    /\ [](\A id \in DOMAIN returned :
            /\ returned[id].id = d[id].Id
            /\ \A i \in InstOf(id) : TrackingID(inst[i]) = returned[id].id
            /\ \A k \in 1..Len(calls[id]) : ID(calls[id][k]) = returned[id].id)

C32_Witness ==
    \E id \in DOMAIN returned :
        /\ \E i \in InstOf(id) : inst[i].by = "copy" /\ inst[i].st = "Resolved"
        /\ \E i \in InstOf(id) : inst[i].by = "new" /\ inst[i].st = "Resolved"
        /\ AllResolved(id)
        /\ Len(calls[id]) = 1
        /\ ID(calls[id][1]) = returned[id].id
        /\ returned[id].id = 2

\* the calls whose effect on other records C33 is about
OnInstance == Resolves \cup {"copy", "copyLate"}

\* C33: record independence. A step of a Copy, Accept, Reject or Drop call
\* on an instance of a record leaves every other record as it is: its Rc
\* and counters, the calls of its notifyFunc, and whether its TrackingID is
\* in trackingStore.
C33_RecordIndependence ==
    [][\A t \in Threads :
          LET now == IF th[t].pc = "idle" THEN th'[t] ELSE th[t] IN
          (th'[t] # th[t] /\ now.op \in OnInstance)
              => \A other \in DOMAIN d \ {now.id} :
                    /\ d'[other] = d[other]
                    /\ calls'[other] = calls[other]
                    /\ (other \in trackingStore') = (other \in trackingStore)
                    /\ zeros'[other] = zeros[other]]_vars

C33_Witness ==
    \E t \in Threads, other \in DOMAIN returned :
        /\ th[t].pc = "delete"
        /\ th[t].id # other
        /\ th[t].id \in trackingStore
        /\ other \in trackingStore
        /\ Len(calls[th[t].id]) = 1
        /\ calls[other] = << >>
        /\ d[other].Rc = 1
        /\ \E i \in InstOf(other) : inst[i].st = "Live"

\* the three status codes read treats as session errors
SessionErrors == {"BadSessionIDInvalid", "BadSessionNotActivated",
                  "BadSecureChannelIDInvalid"}

\* a step of read: one more Client.Read has been issued
Attempt == rc.pc = "read" /\ count' = count + 1

\* C34 - OPC UA read retry bound: one call of readClient.read issues at most
\* ReadRetries + 1 reads and always returns; the first successful read makes
\* it return nil, the first failure that is not a session error makes it
\* return an error at once, and it goes round again only after a session
\* error, and only while the number of attempts does not exceed ReadRetries.
C34_ReadRetryBound ==
    /\ [](count <= ReadRetries + 1)
    /\ [][Attempt =>
            /\ rc'.last = "ok" => rc'.pc # "read" /\ ret'.read = "nil"
            /\ rc'.last \notin SessionErrors \cup {"ok"} =>
                  /\ rc'.pc # "read"
                  /\ ret'.read \in {"reading failed", "failed after attempts"}
            /\ rc'.last \in SessionErrors =>
                  IF count' <= ReadRetries
                    THEN rc'.pc = "read" /\ ret' = ret
                    ELSE rc'.pc # "read" /\ ret'.read = "failed after attempts"
            /\ ret'.read = "nil" => rc'.last = "ok"]_vars
    /\ (rc.pc = "read") ~> (rc.pc # "read")

\* a read that was retried MaxRetries times and gave up
C34_Witness ==
    /\ ReadRetries = MaxRetries
    /\ rc.pc = "idle"
    /\ rc.from = "connect"
    /\ rc.sess
    /\ count = ReadRetries + 1
    /\ ret.read = "failed after attempts"

\* the states in which ensureConnected does not disconnect before connect
Down == {"Disconnected", "Closed"}

\* the call in progress (or the last one) has got as far as connect
AtConnect == rc.need /\ rc.pc \notin {"reconnect", "disconnect"}

Returned == rc.pc = "idle" /\ ret.err # "none"

\* C36 - OPC UA gather outcome: currentValues returns metrics only after
\* ensureConnected returned nil, the state it saw was Connected and its read
\* returned nil; when its read fails it calls Disconnect and returns the
\* error of the read, never that of Disconnect, and no metrics; when the
\* state it sees is not Connected it returns an error and issues no read.
C36_GatherOutcome ==
    /\ [](ret.metrics =>
            /\ Returned /\ ret.err = "nil"
            /\ rc.ens = "nil"
            /\ rc.at = "Connected"
            /\ rc.own /\ ret.read = "nil" /\ rc.last = "ok")
    /\ []((rc.own /\ ret.read \notin {"none", "nil"}) =>
            /\ rc.pc \in {"disconnectAfter", "idle"}
            /\ ~ret.metrics
            /\ Returned =>
                  /\ rc.derr \in {"nil", "disconnect failed"}
                  /\ ret.err = ret.read
                  /\ ret.err \in {"reading failed", "failed after attempts"})
    /\ [](rc.derr # "none" => rc.own /\ ret.read \notin {"none", "nil"})
    /\ []((rc.at \notin {"none", "Connected"}) =>
            /\ Returned /\ ret.err = "not connected" /\ ~ret.metrics
            /\ ~rc.own)
    /\ [][(rc.pc = "state" /\ rc' # rc /\ connState # "Connected") =>
            /\ rc'.pc = "idle"
            /\ count' = count]_vars
    /\ [](Returned /\ ~ret.metrics => ret.err # "nil")

\* a read of currentValues failed after retries and Disconnect failed too
C36_Witness ==
    /\ Returned
    /\ rc.own
    /\ rc.sess
    /\ rc.derr = "disconnect failed"
    /\ ret.read = "failed after attempts"
    /\ ret.err = "failed after attempts"
    /\ ~ret.metrics

TypeOK ==
    /\ lastID \in 0..MaxRecords
    /\ DOMAIN d \subseteq 1..MaxRecords
    /\ Len(inst) <= MaxInst
    /\ mu \in BOOLEAN
    /\ trackingStore \subseteq 1..MaxRecords
====
